---- MODULE Spec2Model ----
(***************************************************************************)
(* The transactional ledger core of fast-load: credit requests, their      *)
(* approval, charge sales and the user update, over a relational store     *)
(* with exclusive row locks (SELECT ... FOR UPDATE).  Every request        *)
(* handler runs in its own session; a handler's position between two       *)
(* awaits is the field pc of its entry in txn.                             *)
(***************************************************************************)
EXTENDS Integers, Sequences, FiniteSets, TLC

\* ------------------------------------------------------------ bounds
NProcs == 2
NUsers == 2
NPhones == 1
MaxRequests == 1
MaxSales == 2
MaxAmount == 2
MaxInitCredit == 2
MaxUpdates == 1
MaxContendedCredit == 5

Procs == 1..NProcs
Users == 1..NUsers
Phones == 1..NPhones
\* phone_number_id and request_id come from the caller: one id past the
\* stored rows stands for every id that names no row
PhoneIds == 1..(NPhones + 1)
RequestIds == 1..(MaxRequests + 1)
\* a user id that names no row
AbsentUser == NUsers + 1
\* amounts a caller may send, valid or not
AmountInputs == 0..MaxAmount
\* credit values an update may carry (credit: int, unconstrained)
UpdateCredits == {0 - 1, MaxInitCredit + 1}

VARIABLES
    credit,            \* User.credit, per user id
    current_charge,    \* PhoneNumber.current_charge, per phone id
    credit_requests,   \* the creditrequest table, id = index
    charge_sales,      \* the chargesale table, id = index
    locks,             \* row -> the session holding its FOR UPDATE lock, 0 = free
    txn,               \* per session: the handler it runs and where it stands
    approvals,         \* history: successful approve calls per request id
    credited,          \* history: credit added by approve calls per request id
    updates,           \* history: number of update_user calls
    initial_credit,    \* history: credit at Init
    initial_charge,    \* history: current_charge at Init
    contention         \* history: the contention scenario set up at Init, if any

vars == <<credit, current_charge, credit_requests, charge_sales, locks, txn,
          approvals, credited, updates, initial_credit, initial_charge, contention>>

\* ------------------------------------------------------------ rows and locks
RequestRow(id) == <<"creditrequest", id>>
UserRow(id) == <<"user", id>>
PhoneRow(id) == <<"phonenumber", id>>

Rows ==
    {RequestRow(i) : i \in 1..MaxRequests} \cup {UserRow(u) : u \in Users}
        \cup {PhoneRow(ph) : ph \in Phones}

RowExists(row) ==
    \/ row[1] = "creditrequest" /\ row[2] \in 1..Len(credit_requests)
    \/ row[1] = "user" /\ row[2] \in Users
    \/ row[1] = "phonenumber" /\ row[2] \in Phones

\* a unit of work that ends and keeps its row locks
ReleaseNothing(p) == locks

\* the end of a unit of work, by commit or by rollback, releases its locks
Release(p) == [row \in Rows |-> IF locks[row] = p THEN 0 ELSE locks[row]]

\* a select written without with_for_update(): it reads and locks nothing
AcquireNothing(p, row) == locks

\* with_for_update(): the row is locked for p until its unit of work ends
Acquire(p, row) == [locks EXCEPT ![row] = p]

\* ------------------------------------------------------------ records
TransactionBase(user_id, amount) ==
    [user_id |-> user_id, amount |-> amount, status |-> "PENDING", processed |-> FALSE]

CreditRequest(user_id, amount) == TransactionBase(user_id, amount)

\* a sale record left with the defaults of TransactionBase
ChargeSaleDefaults(user_id, amount, phone_number_id, status, processed) ==
    [user_id |-> user_id, amount |-> amount, phone_number_id |-> phone_number_id,
     status |-> TransactionBase(user_id, amount).status,
     processed |-> TransactionBase(user_id, amount).processed]

ChargeSale(user_id, amount, phone_number_id, status, processed) ==
    [user_id |-> user_id, amount |-> amount, phone_number_id |-> phone_number_id,
     status |-> status, processed |-> processed]

\* a validator written ge=0 where gt=0 is meant
ValidAmountZeroAllowed(amount) == amount >= 0

\* CreditRequestCreate.amount / ChargeSaleCreate.amount: Field(gt=0)
ValidAmount(amount) == amount > 0

Idle ==
    [op |-> "none", pc |-> "idle", request_id |-> 0, user_id |-> 0, amount |-> 0,
     phone_number_id |-> 0, order |-> <<>>, nheld |-> 0, rd_credit |-> 0,
     rd_amount |-> 0, rd_charge |-> 0, result |-> "none"]

\* a session is free to serve a new call when it runs no handler
Free(p) == txn[p].pc \in {"idle", "done"}

\* what stays of a call once its handler has returned: its outcome
Finished(result) == [Idle EXCEPT !.pc = "done", !.result = result]

Finish(p, result) == [txn EXCEPT ![p] = Finished(result)]

NextRow(p) == txn[p].order[txn[p].nheld + 1]

Locking(p, op) ==
    /\ txn[p].op = op
    /\ txn[p].pc = "locking"
    /\ txn[p].nheld < Len(txn[p].order)

AfterLock(p) == IF txn[p].nheld + 1 = Len(txn[p].order) THEN "commit" ELSE "locking"

SalesInFlight ==
    Cardinality({p \in Procs : txn[p].op = "create_charge_sale" /\ txn[p].amount > 0})

CreatesInFlight ==
    Cardinality({p \in Procs : txn[p].op = "create_credit_request" /\ txn[p].amount > 0})

NoContention == [calls |-> 0, amount |-> 0]

\* ------------------------------------------------------------ Init
Init ==
    /\ credit = [u \in Users |-> IF u = 1 THEN MaxInitCredit ELSE 0]
    /\ current_charge = [ph \in Phones |-> 0]
    /\ credit_requests = <<>>
    /\ charge_sales = <<>>
    /\ locks = [row \in Rows |-> 0]
    /\ txn = [p \in Procs |-> Idle]
    /\ approvals = [i \in 1..MaxRequests |-> 0]
    /\ credited = [i \in 1..MaxRequests |-> 0]
    /\ updates = 0
    /\ initial_credit = credit
    /\ initial_charge = current_charge
    /\ contention = NoContention

\* ------------------------------------------------------------ credit requests
\* POST /credit-requests arrives in session p with a body carrying amount
PostCreditRequest(p, user_id, amount) ==
    /\ Free(p)
    /\ ValidAmount(amount) => Len(credit_requests) + CreatesInFlight < MaxRequests
    /\ txn' = [txn EXCEPT ![p] = [Idle EXCEPT !.op = "create_credit_request",
                   !.pc = "validate", !.user_id = user_id, !.amount = amount]]
    /\ UNCHANGED <<credit, current_charge, credit_requests, charge_sales, locks,
                   approvals, credited, updates, initial_credit, initial_charge, contention>>

\* POST /charge-sales arrives in session p with a body carrying amount and
\* phone_number_id
PostChargeSale(p, user_id, amount, phone_number_id) ==
    /\ Free(p)
    /\ ValidAmount(amount) => Len(charge_sales) + SalesInFlight < MaxSales
    /\ txn' = [txn EXCEPT ![p] = [Idle EXCEPT !.op = "create_charge_sale",
                   !.pc = "validate", !.user_id = user_id, !.amount = amount,
                   !.phone_number_id = phone_number_id]]
    /\ UNCHANGED <<credit, current_charge, credit_requests, charge_sales, locks,
                   approvals, credited, updates, initial_credit, initial_charge, contention>>

\* the body fails CreditRequestCreate / ChargeSaleCreate: the handler never runs
RejectBody(p) ==
    /\ txn[p].pc = "validate"
    /\ ~ValidAmount(txn[p].amount)
    /\ txn' = Finish(p, "ValidationError")
    /\ UNCHANGED <<credit, current_charge, credit_requests, charge_sales, locks,
                   approvals, credited, updates, initial_credit, initial_charge, contention>>

\* crud.create_credit_request: CreditRequest(user_id, amount); add; commit
create_credit_request(p) ==
    /\ txn[p].op = "create_credit_request"
    /\ txn[p].pc = "validate"
    /\ ValidAmount(txn[p].amount)
    /\ credit_requests' = Append(credit_requests,
                                 CreditRequest(txn[p].user_id, txn[p].amount))
    /\ txn' = Finish(p, "ok")
    /\ UNCHANGED <<credit, current_charge, charge_sales, locks, approvals, credited,
                   updates, initial_credit, initial_charge, contention>>

\* the rows approve_credit_request locks, in the order it locks them
ApproveLockOrder(request_id, user_id) == <<RequestRow(request_id), UserRow(user_id)>>

\* POST /credit-requests/{request_id}/approve: the handler passes
\* current_user.id; session.begin() opens the unit of work
approve_credit_request(p, request_id, user_id) ==
    /\ Free(p)
    /\ txn' = [txn EXCEPT ![p] = [Idle EXCEPT !.op = "approve_credit_request",
                   !.pc = "locking", !.request_id = request_id, !.user_id = user_id,
                   !.order = ApproveLockOrder(request_id, user_id)]]
    /\ UNCHANGED <<credit, current_charge, credit_requests, charge_sales, locks,
                   approvals, credited, updates, initial_credit, initial_charge, contention>>

\* an approval that never looks at processed
AlreadyProcessedUnchecked(credit_request) == FALSE

\* if credit_request.processed: raise ValueError("Request already processed")
AlreadyProcessed(credit_request) == credit_request.processed

\* select(CreditRequest).where(id == request_id).with_for_update(); scalar_one();
\* the processed guard
ApproveLockRequest(p) ==
    /\ Locking(p, "approve_credit_request")
    /\ NextRow(p)[1] = "creditrequest"
    /\ IF ~RowExists(NextRow(p))
       THEN /\ txn' = Finish(p, "NotFound")
            /\ locks' = Release(p)
       ELSE /\ locks[NextRow(p)] = 0
            /\ IF AlreadyProcessed(credit_requests[txn[p].request_id])
               THEN /\ txn' = Finish(p, "AlreadyProcessed")
                    /\ locks' = Release(p)
               ELSE /\ txn' = [txn EXCEPT ![p].nheld = @ + 1, ![p].pc = AfterLock(p),
                              ![p].rd_amount = credit_requests[txn[p].request_id].amount]
                    /\ locks' = Acquire(p, NextRow(p))
    /\ UNCHANGED <<credit, current_charge, credit_requests, charge_sales, approvals,
                   credited, updates, initial_credit, initial_charge, contention>>

\* select(User).where(User.id == user_id).with_for_update(); scalar_one()
ApproveLockUser(p) ==
    /\ Locking(p, "approve_credit_request")
    /\ NextRow(p)[1] = "user"
    /\ IF ~RowExists(NextRow(p))
       THEN /\ txn' = Finish(p, "NotFound")
            /\ locks' = Release(p)
       ELSE /\ locks[NextRow(p)] = 0
            /\ locks' = Acquire(p, NextRow(p))
            /\ txn' = [txn EXCEPT ![p].nheld = @ + 1, ![p].pc = AfterLock(p),
                                  ![p].rd_credit = credit[txn[p].user_id]]
    /\ UNCHANGED <<credit, current_charge, credit_requests, charge_sales, approvals,
                   credited, updates, initial_credit, initial_charge, contention>>

\* an approval that sets the status and forgets the processed flag
ApprovedStatusOnly(credit_request) == [credit_request EXCEPT !.status = "APPROVED"]

\* credit_request.status = "APPROVED"; credit_request.processed = True
Approved(credit_request) ==
    [credit_request EXCEPT !.status = "APPROVED", !.processed = TRUE]

\* the account approve_credit_request credits: the user row it locked
ApproveTarget(p) == txn[p].user_id

\* user.credit += credit_request.amount; session.commit()
ApproveCommit(p) ==
    /\ txn[p].op = "approve_credit_request"
    /\ txn[p].pc = "commit"
    /\ credit_requests' = [credit_requests EXCEPT
                              ![txn[p].request_id] = Approved(@)]
    /\ credit' = [credit EXCEPT ![ApproveTarget(p)] = txn[p].rd_credit + txn[p].rd_amount]
    /\ approvals' = [approvals EXCEPT ![txn[p].request_id] = @ + 1]
    /\ credited' = [credited EXCEPT ![txn[p].request_id] =
                        @ + (credit'[ApproveTarget(p)] - credit[ApproveTarget(p)])]
    /\ locks' = Release(p)
    /\ txn' = Finish(p, "ok")
    /\ UNCHANGED <<current_charge, charge_sales, updates, initial_credit, initial_charge, contention>>

\* ------------------------------------------------------------ charge sales
\* a sale that locks whichever of its two rows is free first
SaleLockOrderOpportunistic(user_id, phone_number_id) ==
    IF PhoneRow(phone_number_id) \in Rows /\ locks[UserRow(user_id)] # 0
          /\ locks[PhoneRow(phone_number_id)] = 0
    THEN <<PhoneRow(phone_number_id), UserRow(user_id)>>
    ELSE <<UserRow(user_id), PhoneRow(phone_number_id)>>

\* the rows create_charge_sale locks, in the order it locks them
SaleLockOrder(user_id, phone_number_id) == <<UserRow(user_id), PhoneRow(phone_number_id)>>

\* crud.create_charge_sale with current_user.id: session.begin() opens the unit
\* of work
create_charge_sale(p) ==
    /\ txn[p].op = "create_charge_sale"
    /\ txn[p].pc = "validate"
    /\ ValidAmount(txn[p].amount)
    /\ txn' = [txn EXCEPT ![p].pc = "locking",
                          ![p].order = SaleLockOrder(txn[p].user_id, txn[p].phone_number_id)]
    /\ UNCHANGED <<credit, current_charge, credit_requests, charge_sales, locks,
                   approvals, credited, updates, initial_credit, initial_charge, contention>>

\* sufficiency checks that let an overdraft through, or turn away an exact one
InsufficientCreditOffByOne(user_credit, amount) == user_credit + 1 < amount

InsufficientCreditEmptyOnly(user_credit, amount) == user_credit <= 0

InsufficientCreditInclusive(user_credit, amount) == user_credit <= amount

\* if user.credit < amount: raise ValueError("Insufficient credit")
InsufficientCredit(user_credit, amount) == user_credit < amount

\* a sale that writes the debit through as soon as the check has passed,
\* before it has looked for the phone
SaleLockUserDebitsEarly(p) ==
    /\ Locking(p, "create_charge_sale")
    /\ NextRow(p)[1] = "user"
    /\ RowExists(NextRow(p))
    /\ locks[NextRow(p)] = 0
    /\ ~InsufficientCredit(credit[txn[p].user_id], txn[p].amount)
    /\ txn' = [txn EXCEPT ![p].nheld = @ + 1, ![p].pc = AfterLock(p),
                          ![p].rd_credit = credit[txn[p].user_id]]
    /\ locks' = Acquire(p, NextRow(p))
    /\ credit' = [credit EXCEPT ![txn[p].user_id] = @ - txn[p].amount]
    /\ UNCHANGED <<current_charge, credit_requests, charge_sales, approvals,
                   credited, updates, initial_credit, initial_charge, contention>>

\* select(User).where(User.id == user_id).with_for_update(); scalar_one();
\* the sufficiency check
SaleLockUser(p) ==
    /\ Locking(p, "create_charge_sale")
    /\ NextRow(p)[1] = "user"
    /\ IF ~RowExists(NextRow(p))
       THEN /\ txn' = Finish(p, "NotFound")
            /\ locks' = Release(p)
       ELSE /\ locks[NextRow(p)] = 0
            /\ IF InsufficientCredit(credit[txn[p].user_id], txn[p].amount)
               THEN /\ txn' = Finish(p, "InsufficientFunds")
                    /\ locks' = Release(p)
               ELSE /\ txn' = [txn EXCEPT ![p].nheld = @ + 1, ![p].pc = AfterLock(p),
                                          ![p].rd_credit = credit[txn[p].user_id]]
                    /\ locks' = Acquire(p, NextRow(p))
    /\ UNCHANGED <<credit, current_charge, credit_requests, charge_sales, approvals,
                   credited, updates, initial_credit, initial_charge, contention>>

\* select(PhoneNumber).where(id == phone_number_id).with_for_update(); scalar_one()
SaleLockPhone(p) ==
    /\ Locking(p, "create_charge_sale")
    /\ NextRow(p)[1] = "phonenumber"
    /\ IF ~RowExists(NextRow(p))
       THEN /\ txn' = Finish(p, "NotFound")
            /\ locks' = Release(p)
       ELSE /\ locks[NextRow(p)] = 0
            /\ txn' = [txn EXCEPT ![p].nheld = @ + 1, ![p].pc = AfterLock(p),
                                  ![p].rd_charge = current_charge[txn[p].phone_number_id]]
            /\ locks' = Acquire(p, NextRow(p))
    /\ UNCHANGED <<credit, current_charge, credit_requests, charge_sales, approvals,
                   credited, updates, initial_credit, initial_charge, contention>>

\* user.credit -= amount
Debit(user_credit, amount) == user_credit - amount

\* a sale that takes the amount off the phone as it does off the account
ChargeSubtracted(phone_charge, amount) == phone_charge - amount

\* a sale that debits the account and forgets the phone
ChargeForgotten(phone_charge, amount) == phone_charge

\* phone.current_charge += amount
Charge(phone_charge, amount) == phone_charge + amount

\* ChargeSale(..., status="APPROVED", processed=True); the balance updates;
\* session.add(charge_sale); session.commit()
SaleCommit(p) ==
    /\ txn[p].op = "create_charge_sale"
    /\ txn[p].pc = "commit"
    /\ charge_sales' = Append(charge_sales,
           ChargeSale(txn[p].user_id, txn[p].amount, txn[p].phone_number_id,
                      "APPROVED", TRUE))
    /\ credit' = [credit EXCEPT ![txn[p].user_id] = Debit(txn[p].rd_credit, txn[p].amount)]
    /\ current_charge' = [current_charge EXCEPT
                             ![txn[p].phone_number_id] = Charge(txn[p].rd_charge, txn[p].amount)]
    /\ locks' = Release(p)
    /\ txn' = Finish(p, "ok")
    /\ UNCHANGED <<credit_requests, approvals, credited, updates, initial_credit,
                   initial_charge, contention>>

\* ------------------------------------------------------------ users
\* update_user with a UserUpdate that sets credit (UserUpdate inherits
\* UserBase.credit): setattr(user, "credit", value); commit.  The UPDATE waits
\* for a FOR UPDATE lock on the row.
update_user(user_id, value) ==
    /\ updates < MaxUpdates
    /\ locks[UserRow(user_id)] = 0
    /\ credit' = [credit EXCEPT ![user_id] = value]
    /\ updates' = updates + 1
    /\ UNCHANGED <<current_charge, credit_requests, charge_sales, locks, txn, approvals,
                   credited, initial_credit, initial_charge, contention>>

\* ------------------------------------------------------------ specifications
\* the ledger operations: credit requests, approvals, charge sales
NextLedger ==
    \/ \E p \in Procs, u \in Users, a \in AmountInputs : PostCreditRequest(p, u, a)
    \/ \E p \in Procs, u \in Users, a \in AmountInputs, ph \in PhoneIds :
           PostChargeSale(p, u, a, ph)
    \/ \E p \in Procs : RejectBody(p)
    \/ \E p \in Procs : create_credit_request(p)
    \/ \E p \in Procs, r \in RequestIds, u \in Users : approve_credit_request(p, r, u)
    \/ \E p \in Procs : ApproveLockRequest(p)
    \/ \E p \in Procs : ApproveLockUser(p)
    \/ \E p \in Procs : ApproveCommit(p)
    \/ \E p \in Procs : create_charge_sale(p)
    \/ \E p \in Procs : SaleLockUser(p)
    \/ \E p \in Procs : SaleLockPhone(p)
    \/ \E p \in Procs : SaleCommit(p)

SpecLedger == Init /\ [][NextLedger]_vars

\* the steps of the handler that session p runs
Proceed(p) ==
    \/ RejectBody(p)
    \/ create_credit_request(p)
    \/ ApproveLockRequest(p)
    \/ ApproveLockUser(p)
    \/ ApproveCommit(p)
    \/ create_charge_sale(p)
    \/ SaleLockUser(p)
    \/ SaleLockPhone(p)
    \/ SaleCommit(p)

\* the event loop resumes every handler that can run, and the database hands
\* a released row lock to the sessions waiting for it in turn: a handler
\* whose next step is possible again and again takes it
SpecFair == SpecLedger /\ \A p \in Procs : SF_vars(Proceed(p))

\* every operation of the program that writes the modelled tables
Next ==
    \/ NextLedger
    \/ \E u \in Users, v \in UpdateCredits : update_user(u, v)

Spec == Init /\ [][Next]_vars

\* the crud functions called with the id of a user row that is not there
\* (any caller may pass any user_id), beside the ledger routes
NextCrud ==
    \/ NextLedger
    \/ \E p \in Procs, r \in RequestIds : approve_credit_request(p, r, AbsentUser)
    \/ \E p \in Procs, a \in AmountInputs, ph \in PhoneIds :
           PostChargeSale(p, AbsentUser, a, ph)

SpecCrud == Init /\ [][NextCrud]_vars

\* K concurrent charge sales of one amount against user 1, each already past
\* validation and session.begin(), and nothing else
InitContention ==
    /\ credit \in [Users -> 0..MaxContendedCredit]
    /\ \A u \in Users : u # 1 => credit[u] = 0
    /\ current_charge = [ph \in Phones |-> 0]
    /\ credit_requests = <<>>
    /\ charge_sales = <<>>
    /\ locks = [row \in Rows |-> 0]
    /\ contention \in [calls : Procs, amount : 1..MaxAmount]
    /\ \E phone \in [Procs -> Phones] :
           txn = [p \in Procs |->
                    IF p <= contention.calls
                    THEN [Idle EXCEPT !.op = "create_charge_sale", !.pc = "locking",
                                      !.user_id = 1, !.amount = contention.amount,
                                      !.phone_number_id = phone[p],
                                      !.order = SaleLockOrder(1, phone[p])]
                    ELSE Idle]
    /\ approvals = [i \in 1..MaxRequests |-> 0]
    /\ credited = [i \in 1..MaxRequests |-> 0]
    /\ updates = 0
    /\ initial_credit = credit
    /\ initial_charge = current_charge

NextContention ==
    \/ \E p \in Procs : SaleLockUser(p)
    \/ \E p \in Procs : SaleLockPhone(p)
    \/ \E p \in Procs : SaleCommit(p)

SpecContention == InitContention /\ [][NextContention]_vars

\* one approval that credits user 1 and one charge sale that debits user 1,
\* both past session.begin(), and nothing else
InitRace ==
    /\ credit \in [Users -> 0..MaxContendedCredit]
    /\ \A u \in Users : u # 1 => credit[u] = 0
    /\ current_charge = [ph \in Phones |-> 0]
    /\ \E owner \in Users, amount \in 1..MaxAmount :
           credit_requests = <<CreditRequest(owner, amount)>>
    /\ charge_sales = <<>>
    /\ locks = [row \in Rows |-> 0]
    /\ contention \in [calls : {1}, amount : 1..MaxAmount]
    /\ \E phone \in Phones :
           txn = [p \in Procs |->
                    IF p = 1
                    THEN [Idle EXCEPT !.op = "approve_credit_request", !.pc = "locking",
                                      !.request_id = 1, !.user_id = 1,
                                      !.order = ApproveLockOrder(1, 1)]
                    ELSE IF p = 2
                    THEN [Idle EXCEPT !.op = "create_charge_sale", !.pc = "locking",
                                      !.user_id = 1, !.amount = contention.amount,
                                      !.phone_number_id = phone,
                                      !.order = SaleLockOrder(1, phone)]
                    ELSE Idle]
    /\ approvals = [i \in 1..MaxRequests |-> 0]
    /\ credited = [i \in 1..MaxRequests |-> 0]
    /\ updates = 0
    /\ initial_credit = credit
    /\ initial_charge = current_charge

NextRace ==
    \/ \E p \in Procs : ApproveLockRequest(p)
    \/ \E p \in Procs : ApproveLockUser(p)
    \/ \E p \in Procs : ApproveCommit(p)
    \/ \E p \in Procs : SaleLockUser(p)
    \/ \E p \in Procs : SaleLockPhone(p)
    \/ \E p \in Procs : SaleCommit(p)

SpecRace == InitRace /\ [][NextRace]_vars

\* ------------------------------------------------------------ properties
\* session p takes a step
Steps(p) == txn'[p] # txn[p]

\* session p's handler returns in this step
Ends(p) == txn[p].pc \notin {"idle", "done"} /\ txn'[p].pc = "done"

Outcomes(result) == Cardinality({p \in Procs : txn[p].pc = "done" /\ txn[p].result = result})

Min(a, b) == IF a <= b THEN a ELSE b

\* C1: of the approve calls on one stored credit request at most one succeeds,
\* every other one ends with AlreadyProcessed, and once any of them has
\* returned the calls have added exactly the request's amount to the credits.
IdempotentApproval ==
    /\ [](\A r \in 1..Len(credit_requests) :
            /\ approvals[r] <= 1
            /\ credited[r] = approvals[r] * credit_requests[r].amount)
    /\ [][\A p \in Procs :
            (/\ txn[p].op = "approve_credit_request"
             /\ Ends(p)
             /\ RowExists(RequestRow(txn[p].request_id)))
            => /\ txn'[p].result \in {"ok", "AlreadyProcessed"}
               /\ txn'[p].result = "ok" => approvals[txn[p].request_id] = 0
               /\ approvals'[txn[p].request_id] = 1
               /\ credited'[txn[p].request_id] = credit_requests[txn[p].request_id].amount
         ]_vars

\* one approve call has succeeded and another has been turned away
IdempotentApprovalWitness ==
    /\ \E p \in Procs : txn[p].pc = "done" /\ txn[p].result = "AlreadyProcessed"
    /\ \E r \in 1..Len(credit_requests) : approvals[r] = 1 /\ credited[r] > 0

\* C2: under credit requests, approvals and charge sales alone, no credit and
\* no current_charge is ever negative.
NoNegativeBalances ==
    /\ \A u \in Users : credit[u] >= 0
    /\ \A ph \in Phones : current_charge[ph] >= 0

\* a sale has emptied an account that started with credit
NoNegativeBalancesWitness ==
    \E u \in Users :
        /\ initial_credit[u] > 0
        /\ credit[u] = 0
        /\ \E i \in 1..Len(charge_sales) : charge_sales[i].user_id = u

\* C3: a step that inserts a ChargeSale inserts exactly one, debits its
\* user_id by its amount and charges its phone_number_id by its amount; a
\* sale's step that returns ok is such a step, and every other step of a sale
\* leaves credits, charges and the sale records alone.
ConservationPerSale ==
    [][/\ charge_sales' # charge_sales =>
            /\ Len(charge_sales') = Len(charge_sales) + 1
            /\ SubSeq(charge_sales', 1, Len(charge_sales)) = charge_sales
            /\ LET sale == charge_sales'[Len(charge_sales')]
               IN  /\ credit' = [credit EXCEPT ![sale.user_id] = @ - sale.amount]
                   /\ current_charge' =
                          [current_charge EXCEPT ![sale.phone_number_id] = @ + sale.amount]
       /\ \A p \in Procs :
            (txn[p].op = "create_charge_sale" /\ Steps(p)) =>
                IF txn'[p].result = "ok"
                THEN charge_sales' = Append(charge_sales,
                         ChargeSale(txn[p].user_id, txn[p].amount,
                                    txn[p].phone_number_id, "APPROVED", TRUE))
                ELSE UNCHANGED <<credit, current_charge, charge_sales>>
       /\ current_charge' # current_charge => charge_sales' # charge_sales
    ]_vars

\* two sales have committed
ConservationPerSaleWitness ==
    /\ Len(charge_sales) = 2
    /\ \E ph \in Phones : current_charge[ph] >= 2

\* C4: a sale that takes its user's row lock while the credit is below the
\* amount ends there with InsufficientFunds, and credits, charges and sale
\* records are as before.
AtomicInsufficiencyCheck ==
    [][\A p \in Procs :
          (/\ Locking(p, "create_charge_sale")
           /\ NextRow(p)[1] = "user"
           /\ Steps(p)
           /\ credit[txn[p].user_id] < txn[p].amount)
          => /\ txn'[p].pc = "done"
             /\ txn'[p].result = "InsufficientFunds"
             /\ \A row \in Rows : locks'[row] # p
             /\ UNCHANGED <<credit, current_charge, charge_sales>>
    ]_vars

\* a sale was turned away although every account holds some credit
AtomicInsufficiencyCheckWitness ==
    /\ \E p \in Procs : txn[p].pc = "done" /\ txn[p].result = "InsufficientFunds"
    /\ \A u \in Users : credit[u] > 0
    /\ charge_sales = <<>>

ContentionOver == \A p \in Procs : p <= contention.calls => txn[p].pc = "done"

Affordable == initial_credit[1] \div contention.amount

\* C5 as stated, for K >= 2: K concurrent sales of amount a against credit C
\* end with exactly floor(C/a) successes, K - floor(C/a) InsufficientFunds
\* failures and credit C - a*floor(C/a).
SerializationAsStated ==
    (contention.calls >= 2 /\ ContentionOver) =>
        /\ Outcomes("ok") = Affordable
        /\ Outcomes("InsufficientFunds") = contention.calls - Affordable
        /\ credit[1] = initial_credit[1] - contention.amount * Affordable

\* C5 amended: they end with exactly min(K, floor(C/a)) successes, the other
\* calls fail with InsufficientFunds, and the credit is C - a*min(K, floor(C/a)).
SerializationUnderContention ==
    ContentionOver =>
        /\ Outcomes("ok") = Min(contention.calls, Affordable)
        /\ Outcomes("InsufficientFunds") =
               contention.calls - Min(contention.calls, Affordable)
        /\ credit[1] = initial_credit[1]
                          - contention.amount * Min(contention.calls, Affordable)

\* two contending sales are over: one went through, one was turned away
SerializationWitness ==
    /\ contention.calls >= 2
    /\ ContentionOver
    /\ Outcomes("ok") >= 1
    /\ Outcomes("InsufficientFunds") >= 1

\* C6 as stated: a successful approval adds the request's amount to the
\* credit of the request's owner (credit_request.user_id) and changes no other
\* credit.
ApprovalCreditsOwner ==
    [][\A p \in Procs :
          (txn[p].op = "approve_credit_request" /\ Ends(p) /\ txn'[p].result = "ok")
          => LET credit_request == credit_requests[txn[p].request_id]
             IN  credit' = [credit EXCEPT ![credit_request.user_id] =
                                @ + credit_request.amount]
    ]_vars

\* session p waits for a row lock that another session holds
Blocked(p) ==
    /\ txn[p].pc = "locking"
    /\ txn[p].nheld < Len(txn[p].order)
    /\ RowExists(NextRow(p))
    /\ locks[NextRow(p)] \notin {0, p}

\* C7: no set of in-flight operations in which each is blocked on a row lock
\* held by another operation of the set.
NoCircularWait ==
    ~\E S \in SUBSET Procs :
        /\ S # {}
        /\ \A p \in S : Blocked(p) /\ locks[NextRow(p)] \in S

\* an approval holds its request row and waits for the user row that a sale
\* holds, the sale being on its way to the phone row
NoCircularWaitWitness ==
    \E p, q \in Procs :
        /\ txn[p].op = "approve_credit_request"
        /\ txn[p].nheld = 1
        /\ Blocked(p)
        /\ locks[NextRow(p)] = q
        /\ txn[q].op = "create_charge_sale"
        /\ txn[q].pc = "locking"

\* C8: processed holds exactly when the status is not PENDING; a credit request
\* enters the table as (PENDING, processed=false), one at a time; and a
\* processed request keeps its status and its flag for ever.
CreditRequestStateMachine ==
    /\ [](\A r \in 1..Len(credit_requests) :
            /\ credit_requests[r].processed <=> credit_requests[r].status # "PENDING"
            /\ credit_requests[r].status \in {"PENDING", "APPROVED", "REJECTED"})
    /\ [][/\ Len(credit_requests') >= Len(credit_requests)
          /\ Len(credit_requests') > Len(credit_requests) =>
                /\ Len(credit_requests') = Len(credit_requests) + 1
                /\ credit_requests'[Len(credit_requests')].status = "PENDING"
                /\ credit_requests'[Len(credit_requests')].processed = FALSE
          /\ \A r \in 1..Len(credit_requests) :
                credit_requests[r].processed =>
                    /\ credit_requests'[r].processed
                    /\ credit_requests'[r].status = credit_requests[r].status
       ]_vars

\* an approval is in flight on a request that is already APPROVED
CreditRequestStateMachineWitness ==
    \E p \in Procs :
        /\ txn[p].op = "approve_credit_request"
        /\ txn[p].pc = "locking"
        /\ txn[p].request_id \in 1..Len(credit_requests)
        /\ credit_requests[txn[p].request_id].processed
        /\ credit_requests[txn[p].request_id].status = "APPROVED"

\* C9: a credit request or charge sale posted with amount <= 0 holds no row
\* lock, and its next step ends it with ValidationError, leaving locks,
\* credits, charges, credit requests and sale records as they were.
ValidationBeforeLocking ==
    /\ [](\A p \in Procs :
            (txn[p].op \in {"create_credit_request", "create_charge_sale"}
                /\ txn[p].amount <= 0)
            => txn[p].pc = "validate" /\ \A row \in Rows : locks[row] # p)
    /\ [][\A p \in Procs :
            (/\ txn[p].op \in {"create_credit_request", "create_charge_sale"}
             /\ txn[p].amount <= 0
             /\ Steps(p))
            => /\ txn'[p].pc = "done"
               /\ txn'[p].result = "ValidationError"
               /\ UNCHANGED <<locks, credit, current_charge, credit_requests, charge_sales>>
         ]_vars

\* a call was rejected with ValidationError while another session holds a lock
ValidationBeforeLockingWitness ==
    /\ \E p \in Procs : txn[p].pc = "done" /\ txn[p].result = "ValidationError"
    /\ \E row \in Rows : locks[row] # 0

\* C10 as stated: a credit changes only in the commit of a successful approval,
\* which raises it, or of a successful charge sale, which lowers it, and the
\* committing session holds the account's row lock.
CreditOnlyThroughLedger ==
    [][\A u \in Users :
          credit'[u] # credit[u] =>
              \E p \in Procs :
                  /\ locks[UserRow(u)] = p
                  /\ txn[p].pc = "commit"
                  /\ txn'[p].result = "ok"
                  /\ \/ txn[p].op = "approve_credit_request" /\ credit'[u] > credit[u]
                     \/ txn[p].op = "create_charge_sale" /\ credit'[u] < credit[u]
    ]_vars

\* the sum of f over the finite set S
RECURSIVE SumOver(_, _)
SumOver(f, S) ==
    IF S = {} THEN 0
    ELSE LET x == CHOOSE y \in S : TRUE IN f[x] + SumOver(f, S \ {x})

\* the amounts of the records of a table that satisfy keep, summed
Amounts(table, keep) ==
    SumOver([i \in 1..Len(table) |-> table[i].amount],
            {i \in 1..Len(table) : keep[i]})

ApprovedAmounts ==
    Amounts(credit_requests,
            [i \in 1..Len(credit_requests) |-> credit_requests[i].status = "APPROVED"])

TotalValue(credits, charges) == SumOver(credits, Users) + SumOver(charges, Phones)

\* C11 as stated: in every reachable state the credits and the charges sum to
\* their initial sum plus the amounts of the APPROVED credit requests.
GlobalValueConservation ==
    TotalValue(credit, current_charge)
        = TotalValue(initial_credit, initial_charge) + ApprovedAmounts

\* C12: a step of an approval or of a charge sale that does not end the call
\* with success changes no credit, no charge, no credit request and no sale
\* record; so a call that ends with NotFound, AlreadyProcessed (or
\* InsufficientFunds) has changed none of them.
FailuresLeaveNoTrace ==
    [][\A p \in Procs :
          (/\ txn[p].op \in {"approve_credit_request", "create_charge_sale"}
           /\ Steps(p)
           /\ txn'[p].result # "ok")
          => UNCHANGED <<credit, current_charge, credit_requests, charge_sales>>
    ]_vars

\* one call has ended with NotFound, and an approval that holds its request
\* row finds no account row to lock
FailuresLeaveNoTraceWitness ==
    /\ \E p \in Procs : txn[p].pc = "done" /\ txn[p].result = "NotFound"
    /\ \E q \in Procs :
          /\ txn[q].op = "approve_credit_request"
          /\ txn[q].nheld = 1
          /\ ~RowExists(NextRow(q))

\* the credit of user 1 as the commits so far make it: C, plus r once the
\* approval has committed, minus a once the sale has
CommittedCredit ==
    initial_credit[1] + approvals[1] * credit_requests[1].amount
        - contention.amount * Len(charge_sales)

\* C13: with an approval of amount r for account A and a sale of amount a from
\* A in flight, A's credit is always C plus what has committed (so C + r - a
\* when both succeed), the holder of A's row lock has read the committed
\* credit, and the sale is turned away exactly when the credit committed at its
\* locked check, C or C + r, is below a.
NoLostUpdate ==
    /\ [](/\ credit[1] = CommittedCredit
          /\ \A p \in Procs :
                locks[UserRow(1)] = p => txn[p].rd_credit = credit[1])
    /\ [][\A p \in Procs :
            (/\ Locking(p, "create_charge_sale")
             /\ NextRow(p)[1] = "user"
             /\ Steps(p))
            => /\ txn'[p].result = "InsufficientFunds"
                    <=> initial_credit[1] + approvals[1] * credit_requests[1].amount
                            < contention.amount
               /\ txn'[p].result # "InsufficientFunds" =>
                      txn'[p].rd_credit = CommittedCredit
         ]_vars

\* both have succeeded, the sale only because the approval committed first
NoLostUpdateWitness ==
    /\ \A p \in {1, 2} : txn[p].pc = "done" /\ txn[p].result = "ok"
    /\ initial_credit[1] < contention.amount
    /\ credit[1] = initial_credit[1] + credit_requests[1].amount - contention.amount

LocksHeld(p) == {row \in Rows : locks[row] = p}

\* C14: a row lock is held only by an operation in flight, which holds exactly
\* the rows it has locked so far, so a session whose call has ended, by
\* commit or by any error, holds none; and a row lock passes to a session only
\* when no session holds it.
NoLeakedLocks ==
    /\ [](/\ \A row \in Rows :
                locks[row] # 0 => txn[locks[row]].pc \in {"locking", "commit"}
          /\ \A p \in Procs : Cardinality(LocksHeld(p)) = txn[p].nheld)
    /\ [][\A row \in Rows :
            (locks'[row] # locks[row] /\ locks'[row] # 0) => locks[row] = 0
         ]_vars

\* a call has ended with NotFound, holding nothing, while another session
\* holds both rows of its unit of work
NoLeakedLocksWitness ==
    \E p, q \in Procs :
        /\ txn[p].pc = "done"
        /\ txn[p].result = "NotFound"
        /\ LocksHeld(p) = {}
        /\ Cardinality(LocksHeld(q)) = 2

InFlight(p) == txn[p].pc \in {"validate", "locking", "commit"}

PhoneChargeMonotone ==
    [][\A ph \in Phones :
          /\ current_charge'[ph] >= current_charge[ph]
          /\ current_charge'[ph] # current_charge[ph] =>
                \E p \in Procs :
                    /\ txn[p].op = "create_charge_sale"
                    /\ txn[p].pc = "commit"
                    /\ txn[p].phone_number_id = ph
                    /\ txn'[p].pc = "done"
                    /\ txn'[p].result = "ok"
    ]_vars

\* one sale has raised a phone's charge and a second one is about to commit
PhoneChargeMonotoneWitness ==
    /\ \E ph \in Phones : current_charge[ph] > initial_charge[ph]
    /\ \E p \in Procs : txn[p].op = "create_charge_sale" /\ txn[p].pc = "commit"

\* C17: every ChargeSale record is (APPROVED, processed=true), and a record
\* once inserted is never changed or removed.
SalesBornTerminal ==
    /\ [](\A i \in 1..Len(charge_sales) :
            charge_sales[i].status = "APPROVED" /\ charge_sales[i].processed)
    /\ [][/\ Len(charge_sales') >= Len(charge_sales)
          /\ \A i \in 1..Len(charge_sales) : charge_sales'[i] = charge_sales[i]
       ]_vars

\* a sale record is in the table while other operations go on: an approval
\* has committed after it
SalesBornTerminalWitness ==
    /\ Len(charge_sales) >= 1
    /\ \E r \in 1..Len(credit_requests) : credit_requests[r].processed
    /\ \E u \in Users : credit[u] > initial_credit[u]

SalesOf(keep) == Amounts(charge_sales, keep)

\* C18 as stated: a phone's current_charge is its initial value plus the
\* amounts of the sales on it, and an account's credit is its initial value
\* plus the amounts of its own APPROVED credit requests minus the amounts of
\* its sales.
AuditMatchesBalances ==
    /\ \A ph \in Phones :
          current_charge[ph] = initial_charge[ph]
              + SalesOf([i \in 1..Len(charge_sales) |->
                            charge_sales[i].phone_number_id = ph])
    /\ \A u \in Users :
          credit[u] = initial_credit[u]
              + Amounts(credit_requests,
                        [i \in 1..Len(credit_requests) |->
                            /\ credit_requests[i].status = "APPROVED"
                            /\ credit_requests[i].user_id = u])
              - SalesOf([i \in 1..Len(charge_sales) |-> charge_sales[i].user_id = u])

\* the part of C18 about phones alone
PhoneAuditMatches ==
    \A ph \in Phones :
        current_charge[ph] = initial_charge[ph]
            + SalesOf([i \in 1..Len(charge_sales) |->
                          charge_sales[i].phone_number_id = ph])

====
